---- MODULE Spec2Model ----
(***************************************************************************)
(* Model of the memory-augmented search pipeline of arxiv_agent.py:        *)
(* ArxivAgentApp._perform_search and the collaborators it drives           *)
(* (ArxivSearchEngine.search_papers, PaperProcessor.format_papers_to_      *)
(* markdown, ArxivAgentApp._store_search_in_memory, the memory tab).       *)
(*                                                                         *)
(* Strings are sequences of tokens: a literal of the source is one token,  *)
(* an interpolated value contributes its own tokens.  The Streamlit page   *)
(* is the sequence `ui' of the elements written during the current run.    *)
(***************************************************************************)
EXTENDS Integers, Sequences, FiniteSets, TLC

\* ---------------------------------------------------------------- bounds
MaxResults == 2        \* raw results the search service yields per call
MaxInvocations == 2    \* presses of the search button in one behaviour

\* ------------------------------------------------------- input universes
Users == {"", "alice"}                 \* sidebar text input; "" = not entered
Queries == {<<"transformer", "attention">>}   \* non-empty search_query
None == "<None>"                       \* Python's None
R1 == [title |-> "T1", authors |-> <<"A1">>, summary |-> "S1",
       pdf_url |-> "L1", malformed |-> FALSE]
\* a result without a PDF link: arxiv's Result.pdf_url is None
R2 == [title |-> "T2", authors |-> <<"A1", "A2">>, summary |-> "S2",
       pdf_url |-> None, malformed |-> FALSE]
RBad == [title |-> "T3", authors |-> <<>>, summary |-> "S3",
         pdf_url |-> "L3", malformed |-> TRUE]
RawResults == {R1, R2, RBad}
LLMOutputs == {<<"llm-table">>}        \* response.choices[0].message.content
AddOutcomes == {"ok", "raise_before_write", "raise_after_write"}

RECURSIVE SeqsUpTo(_, _)
SeqsUpTo(S, n) ==
  IF n = 0 THEN {<<>>}
  ELSE LET shorter == SeqsUpTo(S, n - 1)
       IN  shorter \cup {Append(s, x) : s \in shorter, x \in S}

RawSeqs == SeqsUpTo(RawResults, MaxResults)
LLMResponses == [raises : BOOLEAN, content : LLMOutputs]

\* ------------------------------------------------------------ Streamlit
Elem(kind, src, body) == [kind |-> kind, src |-> src, body |-> body]
NoBody == <<>>

\* ------------------------------------------- ArxivSearchEngine (l.46-93)
\* _extract_paper_data: builds the paper dict; raises on a result whose
\* attributes cannot be read.
ExtractRaises(result) == result.malformed

_extract_paper_data(result) ==
  [title |-> result.title, authors |-> result.authors,
   summary |-> result.summary, pdf_url |-> result.pdf_url]

\* search_papers: the loop of lines 69-77 over the results the client
\* yields.  `raw' are the results yielded; transportFails says the
\* generator raises after yielding them (the for statement is outside the
\* inner try, so that exception leaves search_papers).
\* variant: the first record that fails extraction ends the loop
search_loop_stops(raw) ==
  IF raw = <<>> THEN [papers |-> <<>>, ui |-> <<>>]
  ELSE IF ExtractRaises(Head(raw))
       THEN [papers |-> <<>>, ui |-> <<Elem("warning", "extract", NoBody)>>]
       ELSE [papers |-> <<_extract_paper_data(Head(raw))>>, ui |-> <<>>]

RECURSIVE search_loop(_)
search_loop(raw) ==
  IF raw = <<>> THEN [papers |-> <<>>, ui |-> <<>>]
  ELSE LET rest == search_loop(Tail(raw))
       IN  IF ExtractRaises(Head(raw))
           THEN [papers |-> rest.papers,
                 ui |-> <<Elem("warning", "extract", NoBody)>> \o rest.ui]
           ELSE [papers |-> <<_extract_paper_data(Head(raw))>> \o rest.papers,
                 ui |-> rest.ui]

\* variant: the for statement inside a try that swallows the transport error
search_papers_swallow(raw, transportFails) ==
  LET r == search_loop(raw)
  IN  [raised |-> FALSE, value |-> r.papers, ui |-> r.ui]

search_papers(raw, transportFails) ==
  LET r == search_loop(raw)
  IN  [raised |-> transportFails,
       value |-> IF transportFails THEN <<>> ELSE r.papers,
       ui |-> r.ui]

\* --------------------------------------------- PaperProcessor (l.96-144)
\* the text an f-string puts for a value: str(None) is "None"
Str(v) == IF v = None THEN "None" ELSE v

\* dict.get(key, default)
Get(paper, key, default) ==
  IF key \in DOMAIN paper THEN paper[key] ELSE default

\* ', '.join(names)
RECURSIVE Join(_)
Join(names) ==
  IF names = <<>> THEN <<>>
  ELSE IF Len(names) = 1 THEN <<names[1]>>
  ELSE <<names[1], ", ">> \o Join(Tail(names))

\* one iteration of the loop of lines 138-143
Section(i, paper) ==
  <<"### ", ToString(i), ". ", Str(Get(paper, "title", "No title")), "\n",
    "**Authors:** ">> \o Join(Get(paper, "authors", <<>>)) \o
  <<"\n\n", "**Abstract:** ",
    Str(Get(paper, "summary", "No abstract available")),
    "\n\n", "**Link:** ", Str(Get(paper, "pdf_url", "No link available")),
    "\n\n", "---\n\n">>

RECURSIVE Sections(_, _)
Sections(ps, i) ==
  IF ps = <<>> THEN <<>>
  ELSE Section(i, Head(ps)) \o Sections(Tail(ps), i + 1)

\* variant: enumerate(papers) left at its default start of 0
_fallback_formatting_from_zero(ps) ==
  <<"## Search Results\n\n">> \o Sections(ps, 0)

_fallback_formatting(ps) == <<"## Search Results\n\n">> \o Sections(ps, 1)

NoPapersSentinel == <<"No papers found for the given query.">>

\* variant: the chat-completion call without the try/except of l.114-123
format_papers_no_fallback(ps, llm) ==
  IF ps = <<>>
  THEN [raised |-> FALSE, value |-> NoPapersSentinel, ui |-> <<>>,
        llm_calls |-> 0]
  ELSE [raised |-> llm.raises, value |-> llm.content, ui |-> <<>>,
        llm_calls |-> 1]

\* variant: the `if not papers' test of l.111-112 dropped
format_papers_no_empty_check(ps, llm) ==
  IF llm.raises
  THEN [raised |-> FALSE, value |-> _fallback_formatting(ps),
        ui |-> <<Elem("error", "format", NoBody)>>, llm_calls |-> 1]
  ELSE [raised |-> FALSE, value |-> llm.content, ui |-> <<>>,
        llm_calls |-> 1]

\* variant: a failed chat-completion call is tried a second time
format_papers_retry_once(ps, llm) ==
  IF ps = <<>>
  THEN [raised |-> FALSE, value |-> NoPapersSentinel, ui |-> <<>>,
        llm_calls |-> 0]
  ELSE IF llm.raises
  THEN [raised |-> FALSE, value |-> _fallback_formatting(ps),
        ui |-> <<Elem("error", "format", NoBody)>>, llm_calls |-> 2]
  ELSE [raised |-> FALSE, value |-> llm.content, ui |-> <<>>,
        llm_calls |-> 1]

\* format_papers_to_markdown: llm = [raises, content] is what the
\* chat-completion call does if it is made.
format_papers_to_markdown(ps, llm) ==
  IF ps = <<>>
  THEN [raised |-> FALSE, value |-> NoPapersSentinel, ui |-> <<>>,
        llm_calls |-> 0]
  ELSE IF llm.raises
  THEN [raised |-> FALSE, value |-> _fallback_formatting(ps),
        ui |-> <<Elem("error", "format", NoBody)>>, llm_calls |-> 1]
  ELSE [raised |-> FALSE, value |-> llm.content, ui |-> <<>>,
        llm_calls |-> 1]

\* ------------------------------------------------ mem0 Memory (external)
\* Memory.add(messages, user_id, infer): with infer=False the text is kept
\* verbatim; a raising call may or may not have written the entry.
StoredText(messages, infer) == IF infer THEN <<"inferred-facts">> ELSE messages

\* variant: the add replaces the user's entries instead of appending
memory_add_overwrites(mem, messages, uid, infer, outcome) ==
  [raised |-> outcome # "ok",
   memory |-> IF outcome = "raise_before_write" THEN mem
              ELSE [mem EXCEPT ![uid] =
                      <<[memory |-> StoredText(messages, infer)]>>]]

memory_add(mem, messages, uid, infer, outcome) ==
  [raised |-> outcome # "ok",
   memory |-> IF outcome = "raise_before_write" THEN mem
              ELSE [mem EXCEPT ![uid] =
                      Append(@, [memory |-> StoredText(messages, infer)])]]

\* ------------------------------------------- ArxivAgentApp (l.289-357)
\* variant: the context put in front of the query
_enhance_query_prepends(query) ==
  [raised |-> FALSE, value |-> <<"[user background] ">> \o query,
   ui |-> <<>>, mem_searches |-> 0]

\* _enhance_query_with_memory: the try body is `return query'.
_enhance_query_with_memory(query) ==
  [raised |-> FALSE, value |-> query, ui |-> <<>>, mem_searches |-> 0]

RECURSIVE TitleLines(_)
TitleLines(titles) ==
  IF titles = <<>> THEN <<>>
  ELSE <<"- ", Str(Head(titles)), "\n">> \o TitleLines(Tail(titles))

paper_titles(ps) == [i \in 1..Len(ps) |-> Get(ps[i], "title", "No Title")]

\* lines 334-339; the literals are kept without their emoji characters
markdown_memory(query, ps) ==
  <<"**Searched for:** ">> \o query \o <<"\n\n">> \o
  (IF paper_titles(ps) # <<>>
   THEN <<"**Found Papers:**\n">> \o TitleLines(paper_titles(ps))
   ELSE <<>>) \o
  <<"\n---\n">>

\* variant: the add call leaving infer at mem0's default
AddCall_infer(query, ps, uid) ==
  [messages |-> markdown_memory(query, ps), user_id |-> uid, infer |-> TRUE]

\* the arguments of the memory.add call of lines 342-346
AddCall(query, ps, uid) ==
  [messages |-> markdown_memory(query, ps), user_id |-> uid, infer |-> FALSE]

\* variant: the memory.add call without the try/except of l.330-349
_store_search_no_catch(mem, query, ps, uid, outcome) ==
  LET call == AddCall(query, ps, uid)
      r == memory_add(mem, call.messages, call.user_id, call.infer, outcome)
  IN  [raised |-> r.raised, memory |-> r.memory, add_calls |-> <<call>>,
       ui |-> <<>>]

\* _store_search_in_memory: try/except around the whole body.
_store_search_in_memory(mem, query, ps, uid, outcome) ==
  LET call == AddCall(query, ps, uid)
      r == memory_add(mem, call.messages, call.user_id, call.infer, outcome)
  IN  [raised |-> FALSE,
       memory |-> r.memory,
       add_calls |-> <<call>>,
       ui |-> IF r.raised
              THEN <<Elem("warning", "store", NoBody),
                     Elem("exception", "store", NoBody)>>
              ELSE <<>>]

\* the except clause of lines 316-318
OuterExcept == <<Elem("error", "perform_search", NoBody),
                 Elem("exception", "perform_search", NoBody)>>

\* ---------------------------------------------------------------- state
VARIABLES
  pc,                 \* position of the run inside _perform_search
  user_id,            \* self.user_id
  search_query,       \* argument of _perform_search
  enhanced_query,     \* local of _perform_search
  papers,             \* local of _perform_search
  formatted_results,  \* local of _perform_search
  ui,                 \* elements written to the page by the search tab
  history_view,       \* elements written to the page by the memory tab
  memory,             \* the mem0 store: user id -> entries, oldest first
  calls,              \* external calls made by the current invocation
  add_calls,          \* memory.add calls made by the current invocation
  failures,           \* collaborator failures met by the current invocation
  mem_before,         \* the store when the current invocation began
  raw_results,        \* what client.results yielded to the current invocation
  invocations         \* searches started so far

vars == <<pc, user_id, search_query, enhanced_query, papers,
          formatted_results, ui, history_view, memory, calls, add_calls,
          failures, mem_before, raw_results, invocations>>

Terminal == {"done", "no_results", "aborted"}
NoCalls == [enhance |-> 0, mem_search |-> 0, search |-> 0, format |-> 0,
            llm |-> 0]

Init ==
  /\ pc = "idle"
  /\ user_id = ""
  /\ search_query = <<>>
  /\ enhanced_query = <<>>
  /\ papers = <<>>
  /\ formatted_results = <<>>
  /\ ui = <<>>
  /\ history_view = <<>>
  /\ memory = [u \in Users |-> <<>>]
  /\ calls = NoCalls
  /\ add_calls = <<>>
  /\ failures = {}
  /\ mem_before = [u \in Users |-> <<>>]
  /\ raw_results = <<>>
  /\ invocations = 0

\* variant: the user-id test of l.291 dropped
UserIdMissing_never(uid) == FALSE

\* line 291: `not self.user_id'
UserIdMissing(uid) == uid = ""

\* lines 269-270 and 289-295: the button is pressed with a non-empty query;
\* the page is rebuilt, the sidebar fixes self.user_id.
perform_search_begin(q, uid) ==
  /\ pc \in Terminal \cup {"idle"}
  /\ invocations < MaxInvocations
  /\ invocations' = invocations + 1
  /\ user_id' = uid
  /\ search_query' = q
  /\ enhanced_query' = <<>>
  /\ papers' = <<>>
  /\ formatted_results' = <<>>
  /\ history_view' = <<>>
  /\ calls' = NoCalls
  /\ add_calls' = <<>>
  /\ mem_before' = memory
  /\ raw_results' = <<>>
  /\ IF UserIdMissing(uid)
     THEN /\ ui' = <<Elem("error", "precondition", NoBody)>>
          /\ failures' = {"precondition"}
          /\ pc' = "aborted"
     ELSE /\ ui' = <<>>
          /\ failures' = {}
          /\ pc' = "enriching"
  /\ UNCHANGED memory

\* lines 299-301
enhance_step ==
  /\ pc = "enriching"
  /\ LET r == _enhance_query_with_memory(search_query)
     IN  /\ calls' = [calls EXCEPT !.enhance = @ + 1,
                                   !.mem_search = @ + r.mem_searches]
         /\ ui' = ui \o r.ui \o (IF r.raised THEN OuterExcept ELSE <<>>)
         /\ enhanced_query' = IF r.raised THEN enhanced_query ELSE r.value
         /\ pc' = IF r.raised THEN "aborted" ELSE "searching"
  /\ UNCHANGED <<user_id, search_query, papers, formatted_results,
                 history_view, memory, add_calls, failures, mem_before,
                 raw_results, invocations>>

\* variant: no `if papers' test before formatting
AfterSearch_no_empty_check(raised, ps) ==
  IF raised THEN "aborted" ELSE "formatting"

\* variant: no except clause at l.316, the exception leaves _perform_search
AfterSearch_unhandled(raised, ps) ==
  IF raised THEN "crashed"
  ELSE IF ps # <<>> THEN "formatting"
  ELSE "no_results"

\* lines 306, 313 and 316: where _perform_search goes after search_papers
AfterSearch(raised, ps) ==
  IF raised THEN "aborted"
  ELSE IF ps # <<>> THEN "formatting"
  ELSE "no_results"

\* lines 304-306 and 313-318: the search call, then the branch on `papers'
search_step(raw, transportFails) ==
  /\ pc = "searching"
  /\ LET r == search_papers(raw, transportFails)
     IN  /\ calls' = [calls EXCEPT !.search = @ + 1]
         /\ raw_results' = raw
         /\ failures' = failures
                \cup (IF transportFails THEN {"search"} ELSE {})
                \cup (IF \E i \in 1..Len(raw) : ExtractRaises(raw[i])
                      THEN {"extract"} ELSE {})
         /\ papers' = IF r.raised THEN papers ELSE r.value
         /\ ui' = ui \o r.ui \o
                  (IF r.raised THEN OuterExcept
                   ELSE IF AfterSearch(r.raised, r.value) = "no_results"
                        THEN <<Elem("info", "no_results", NoBody)>>
                        ELSE <<>>)
         /\ pc' = AfterSearch(r.raised, r.value)
  /\ UNCHANGED <<user_id, search_query, enhanced_query, formatted_results,
                 history_view, memory, add_calls, mem_before, invocations>>

\* line 308
format_step(llm) ==
  /\ pc = "formatting"
  /\ LET r == format_papers_to_markdown(papers, llm)
     IN  /\ calls' = [calls EXCEPT !.format = @ + 1, !.llm = @ + r.llm_calls]
         /\ failures' = failures \cup
                (IF llm.raises THEN {"llm"} ELSE {})
         /\ formatted_results' = IF r.raised THEN formatted_results
                                 ELSE r.value
         /\ ui' = ui \o r.ui \o (IF r.raised THEN OuterExcept ELSE <<>>)
         /\ pc' = IF r.raised THEN "aborted" ELSE "displaying"
  /\ UNCHANGED <<user_id, search_query, enhanced_query, papers,
                 history_view, memory, add_calls, mem_before, raw_results,
                 invocations>>

\* variant: the st.markdown call of l.309 missing before the store
display_step_missing ==
  /\ pc = "displaying"
  /\ pc' = "recording"
  /\ UNCHANGED <<user_id, search_query, enhanced_query, papers,
                 formatted_results, ui, history_view, memory, calls,
                 add_calls, failures, mem_before, raw_results, invocations>>

\* line 309: st.markdown(formatted_results)
display_step ==
  /\ pc = "displaying"
  /\ ui' = Append(ui, Elem("markdown", "results", formatted_results))
  /\ pc' = "recording"
  /\ UNCHANGED <<user_id, search_query, enhanced_query, papers,
                 formatted_results, history_view, memory, calls, add_calls,
                 failures, mem_before, raw_results, invocations>>

\* variant: the episode is built from the formatter's output
store_step_records_output(outcome) ==
  /\ pc = "recording"
  /\ LET r == _store_search_in_memory(memory, formatted_results, papers,
                                      user_id, outcome)
     IN  /\ add_calls' = add_calls \o r.add_calls
         /\ memory' = r.memory
         /\ failures' = failures \cup
                (IF outcome # "ok" THEN {"mem_write"} ELSE {})
         /\ ui' = ui \o r.ui \o (IF r.raised THEN OuterExcept ELSE <<>>)
         /\ pc' = IF r.raised THEN "aborted" ELSE "done"
  /\ UNCHANGED <<user_id, search_query, enhanced_query, papers,
                 formatted_results, history_view, calls, mem_before,
                 raw_results, invocations>>

\* line 312
store_step(outcome) ==
  /\ pc = "recording"
  /\ LET r == _store_search_in_memory(memory, search_query, papers, user_id,
                                      outcome)
     IN  /\ add_calls' = add_calls \o r.add_calls
         /\ memory' = r.memory
         /\ failures' = failures \cup
                (IF outcome # "ok" THEN {"mem_write"} ELSE {})
         /\ ui' = ui \o r.ui \o (IF r.raised THEN OuterExcept ELSE <<>>)
         /\ pc' = IF r.raised THEN "aborted" ELSE "done"
  /\ UNCHANGED <<user_id, search_query, enhanced_query, papers,
                 formatted_results, history_view, calls, mem_before,
                 raw_results, invocations>>

\* get_all_memories (l.351-357): [] with a warning when get_all raises
get_all_memories(mem, uid, raises) ==
  IF raises
  THEN [results |-> <<>>, ui |-> <<Elem("warning", "get_all", NoBody)>>]
  ELSE [results |-> mem[uid], ui |-> <<>>]

Reversed(s) == [i \in 1..Len(s) |-> s[Len(s) + 1 - i]]

\* _setup_memory_tab (l.272-286), run after the search tab of the same run
setup_memory_tab(raises) ==
  /\ pc \in Terminal \cup {"idle"}
  /\ history_view' =
       IF user_id = ""
       THEN <<Elem("info", "memory_tab_no_user", NoBody)>>
       ELSE LET r == get_all_memories(memory, user_id, raises)
            IN  r.ui \o
                (IF r.results # <<>>
                 THEN [i \in 1..Len(r.results) |->
                         Elem("markdown", "memory_tab",
                              Reversed(r.results)[i].memory)]
                 ELSE <<Elem("info", "memory_tab_empty", NoBody)>>)
  /\ UNCHANGED <<pc, user_id, search_query, enhanced_query, papers,
                 formatted_results, ui, memory, calls, add_calls, failures,
                 mem_before, raw_results, invocations>>

Next ==
  \/ \E q \in Queries, uid \in Users : perform_search_begin(q, uid)
  \/ enhance_step
  \/ \E raw \in RawSeqs, tf \in BOOLEAN :
       search_step(raw, tf)
  \/ \E llm \in LLMResponses : format_step(llm)
  \/ display_step
  \/ \E outcome \in AddOutcomes : store_step(outcome)
  \/ \E raises \in BOOLEAN : setup_memory_tab(raises)

Spec == Init /\ [][Next]_vars

\* The run is synchronous and every external call returns or raises, so a
\* step of _perform_search that can be taken is taken.
FairSpec ==
  /\ Spec
  /\ WF_vars(enhance_step)
  /\ WF_vars(\E raw \in RawSeqs, tf \in BOOLEAN : search_step(raw, tf))
  /\ WF_vars(\E llm \in LLMResponses : format_step(llm))
  /\ WF_vars(display_step)
  /\ WF_vars(\E outcome \in AddOutcomes : store_step(outcome))

\* ------------------------------------------- the formatter on its own
\* PaperProcessor's two methods applied to any list of paper dicts: the
\* dicts the adapter builds and dicts that lack keys.
PaperDicts ==
  {_extract_paper_data(R1), _extract_paper_data(R2),
   [authors |-> <<"A1">>, summary |-> "S1", pdf_url |-> "L1"],
   [title |-> "T2"],
   [title |-> "T1", authors |-> <<>>]}
PaperSeqs == SeqsUpTo(PaperDicts, MaxResults)

InitFn ==
  /\ pc = "fn_input"
  /\ papers \in PaperSeqs
  /\ user_id = ""
  /\ search_query = <<>>
  /\ enhanced_query = <<>>
  /\ formatted_results = <<>>
  /\ ui = <<>>
  /\ history_view = <<>>
  /\ memory = [u \in Users |-> <<>>]
  /\ calls = NoCalls
  /\ add_calls = <<>>
  /\ failures = {}
  /\ mem_before = [u \in Users |-> <<>>]
  /\ raw_results = <<>>
  /\ invocations = 0

\* processor.format_papers_to_markdown(papers)
fn_format(llm) ==
  /\ pc = "fn_input"
  /\ LET r == format_papers_to_markdown(papers, llm)
     IN  /\ calls' = [calls EXCEPT !.format = @ + 1, !.llm = @ + r.llm_calls]
         /\ failures' = IF llm.raises THEN {"llm"} ELSE {}
         /\ formatted_results' = r.value
         /\ ui' = r.ui
  /\ pc' = "fn_formatted"
  /\ UNCHANGED <<user_id, search_query, enhanced_query, papers,
                 history_view, memory, add_calls, mem_before, raw_results,
                 invocations>>

\* processor._fallback_formatting(papers)
fn_fallback ==
  /\ pc = "fn_input"
  /\ formatted_results' = _fallback_formatting(papers)
  /\ pc' = "fn_fallback"
  /\ UNCHANGED <<user_id, search_query, enhanced_query, papers, ui,
                 history_view, memory, calls, add_calls, failures,
                 mem_before, raw_results, invocations>>

NextFn ==
  \/ \E llm \in LLMResponses : fn_format(llm)
  \/ fn_fallback

SpecFn == InitFn /\ [][NextFn]_vars

TypeOK ==
  /\ pc \in Terminal \cup {"idle", "enriching", "searching", "formatting",
                           "displaying", "recording",
                           "fn_input", "fn_formatted", "fn_fallback"}
  /\ user_id \in Users
  /\ invocations \in 0..MaxInvocations
  /\ failures \subseteq {"precondition", "search", "extract", "llm",
                         "mem_write"}

\* ------------------------------------------------------------ properties
IsPrefix(a, b) == Len(a) <= Len(b) /\ SubSeq(b, 1, Len(a)) = a
Contains(hay, needle) ==
  \E k \in 0..(Len(hay) - Len(needle)) :
     SubSeq(hay, k + 1, k + Len(needle)) = needle
Count(kind) == Cardinality({i \in DOMAIN ui : ui[i].kind = kind})
CountFrom(kind, src) ==
  Cardinality({i \in DOMAIN ui : ui[i].kind = kind /\ ui[i].src = src})
MarkdownShown ==
  \E i \in DOMAIN ui : ui[i].kind = "markdown" /\ ui[i].src = "results"
ErrorReported == \E i \in DOMAIN ui : ui[i].kind = "error"
Titles(ps) == [i \in 1..Len(ps) |-> ps[i].title]
IsTitleToken(t) == \E r \in RawResults : t = r.title

\* C1: with a non-empty user id, when search_papers raises the invocation
\* ends Aborted, the formatter and the text-generation service were not
\* called, memory.add was not called and the store is as it was, nothing
\* was displayed as a result, and exactly one st.error was issued (the
\* except clause of _perform_search, followed by its traceback element).
C1_SearchFailureAborts ==
  (user_id # "" /\ "search" \in failures) =>
     /\ pc = "aborted"
     /\ calls.format = 0 /\ calls.llm = 0
     /\ add_calls = <<>>
     /\ memory = mem_before
     /\ ~MarkdownShown
     /\ Count("error") = 1
     /\ CountFrom("error", "perform_search") = 1
     /\ formatted_results = <<>>

C1_Witness ==
  /\ user_id # "" /\ pc = "aborted"
  /\ failures = {"search", "extract"}
  /\ calls.search = 1
  /\ Count("warning") = 1

\* C2: when the search returned at least one paper and the chat-completion
\* call raised, formatted_results is the fallback markdown (header plus one
\* numbered section per paper), the invocation ends Done with that markdown
\* displayed, and memory.add was called once with the episode; unless that
\* add call itself raised, the entry is the user's newest stored entry.
C2_LLMFailureFallsBack ==
  ("llm" \in failures /\ papers # <<>>) =>
     /\ formatted_results = _fallback_formatting(papers)
     /\ formatted_results[1] = "## Search Results\n\n"
     /\ SelectSeq(formatted_results, IsTitleToken) = Titles(papers)
     /\ pc \in {"displaying", "recording", "done"}
     /\ pc \in {"recording", "done"} =>
          /\ CountFrom("markdown", "results") = 1
          /\ \E i \in DOMAIN ui :
               ui[i] = Elem("markdown", "results", _fallback_formatting(papers))
     /\ pc = "done" =>
          /\ Len(add_calls) = 1
          /\ Contains(add_calls[1].messages, search_query)
          /\ "mem_write" \notin failures =>
               /\ Len(memory[user_id]) = Len(mem_before[user_id]) + 1
               /\ memory[user_id][Len(memory[user_id])].memory
                    = add_calls[1].messages

C2_Witness ==
  /\ failures = {"llm"} /\ pc = "done"
  /\ Len(papers) = 2
  /\ MarkdownShown
  /\ Len(memory[user_id]) = 1

\* C3: when memory.add raises, the invocation still ends Done: the result
\* markdown stays on the page, the failure adds one warning and its
\* traceback element after it and no st.error, and the except clause of
\* _perform_search is not entered.
C3_MemoryWriteFailureIsWarning ==
  "mem_write" \in failures =>
     /\ pc = "done"
     /\ Len(ui) >= 3
     /\ ui[Len(ui) - 2] = Elem("markdown", "results", formatted_results)
     /\ ui[Len(ui) - 1] = Elem("warning", "store", NoBody)
     /\ ui[Len(ui)] = Elem("exception", "store", NoBody)
     /\ CountFrom("error", "store") = 0
     /\ CountFrom("error", "perform_search") = 0
     /\ CountFrom("exception", "perform_search") = 0

C3_Witness ==
  /\ failures = {"mem_write"} /\ pc = "done"
  /\ MarkdownShown
  /\ memory = mem_before
  /\ Len(add_calls) = 1

\* C4: when search_papers returns an empty list, the invocation ends with
\* the st.info "No papers found for your query" element and no st.error,
\* the formatter and memory.add are not called and the store is unchanged.
C4_NoResultsLeavesMemory ==
  (calls.search = 1 /\ "search" \notin failures /\ papers = <<>>) =>
     /\ pc = "no_results"
     /\ ui[Len(ui)] = Elem("info", "no_results", NoBody)
     /\ Count("error") = 0
     /\ Count("exception") = 0
     /\ ~MarkdownShown
     /\ calls.format = 0 /\ calls.llm = 0
     /\ add_calls = <<>>
     /\ memory = mem_before

C4_Witness ==
  /\ pc = "no_results"
  /\ calls.search = 1
  /\ memory[user_id] # <<>>
  /\ Count("info") = 1

\* C5: when _perform_search runs with an empty user id it issues the
\* precondition st.error and nothing else: no enrichment, no memory search,
\* no search call, no formatter or text-generation call, no memory.add, the
\* store unchanged, and the memory tab does not read the store either.
C5_MissingUserStopsPipeline ==
  (user_id = "" /\ pc # "idle") =>
     /\ pc = "aborted"
     /\ ui = <<Elem("error", "precondition", NoBody)>>
     /\ calls = NoCalls
     /\ add_calls = <<>>
     /\ memory = mem_before
     /\ enhanced_query = <<>> /\ papers = <<>> /\ formatted_results = <<>>
     /\ history_view \in {<<>>, <<Elem("info", "memory_tab_no_user", NoBody)>>}

C5_Witness ==
  /\ user_id = "" /\ pc = "aborted"
  /\ invocations = 2
  /\ memory["alice"] # <<>>
  /\ history_view # <<>>

\* C6: in one invocation the page gets the result markdown or an error
\* report, never both.
C6_MarkdownOrErrorNeverBoth == ~(MarkdownShown /\ ErrorReported)

\* C7: an st.error is issued only for a missing user id or a search-adapter
\* failure; formatting, memory-write and extraction failures issue no
\* st.error.
C7_ErrorsOnlyForPreconditionOrSearch ==
  \A i \in DOMAIN ui :
     ui[i].kind = "error" =>
        \/ ui[i].src = "precondition" /\ user_id = ""
        \/ ui[i].src = "perform_search" /\ "search" \in failures

\* C8: once enrichment has run for a user who has stored entries, the
\* memory store has been searched and the query handed to the search
\* adapter contains the text of a stored entry after the original query.
C8_EnrichmentUsesMemory ==
  (calls.enhance = 1 /\ mem_before[user_id] # <<>>) =>
     /\ calls.mem_search = 1
     /\ \E i \in DOMAIN mem_before[user_id] :
          Contains(enhanced_query, mem_before[user_id][i].memory)

\* C9: after enrichment the enhanced query has the original query as a
\* prefix, it is the original query when the user has no stored entries,
\* and the invocation is at or past the search call: enrichment added no
\* report to the page and aborted nothing.
C9_EnrichmentKeepsQueryAndContinues ==
  calls.enhance = 1 =>
     /\ IsPrefix(search_query, enhanced_query)
     /\ mem_before[user_id] = <<>> => enhanced_query = search_query
     /\ pc = "searching" \/ calls.search = 1
     /\ CountFrom("error", "enhance") = 0
     /\ pc = "aborted" => "search" \in failures

C9_Witness ==
  /\ calls.enhance = 1 /\ pc = "searching"
  /\ mem_before[user_id] # <<>>
  /\ enhanced_query = search_query
  /\ search_query # <<>>

\* C10: an invocation whose search returned n >= 1 papers and that was
\* formatted makes exactly one memory.add call, with infer = FALSE and the
\* invocation's user id; its text contains the original query and, as its
\* only title tokens, the n titles in result order.  When the call returns
\* the user's entries are the previous ones followed by that text; in no
\* case does the user gain more than one entry or another user any.
C10_OneVerbatimEpisodeEntry ==
  (pc \in Terminal /\ calls.format = 1 /\ papers # <<>>) =>
     /\ Len(add_calls) = 1
     /\ add_calls[1].infer = FALSE
     /\ add_calls[1].user_id = user_id
     /\ Contains(add_calls[1].messages, search_query)
     /\ SelectSeq(add_calls[1].messages, IsTitleToken) = Titles(papers)
     /\ "mem_write" \notin failures =>
          memory[user_id] =
             Append(mem_before[user_id], [memory |-> add_calls[1].messages])
     /\ Len(memory[user_id]) <= Len(mem_before[user_id]) + 1
     /\ \A u \in Users \ {user_id} : memory[u] = mem_before[u]

C10_Witness ==
  /\ pc = "done" /\ failures = {}
  /\ Len(papers) = 2 /\ papers[1].title # papers[2].title
  /\ Len(add_calls) = 1
  /\ Len(memory[user_id]) = 2

Valid(result) == ~result.malformed
Malformed(result) == result.malformed

\* C11: when the results generator does not raise, search_papers returns
\* one paper per well-formed raw result, in the order yielded, each with
\* that result's fields; it issues one warning per malformed result and no
\* other report, and the invocation is not aborted.
C11_MalformedRecordSkipped ==
  (calls.search = 1 /\ "search" \notin failures) =>
     LET good == SelectSeq(raw_results, Valid)
         bad == SelectSeq(raw_results, Malformed)
     IN  /\ Len(papers) = Len(good)
         /\ \A i \in 1..Len(good) :
              /\ papers[i].title = good[i].title
              /\ papers[i].authors = good[i].authors
              /\ papers[i].summary = good[i].summary
              /\ papers[i].pdf_url = good[i].pdf_url
         /\ CountFrom("warning", "extract") = Len(bad)
         /\ Count("warning") = Len(bad) + CountFrom("warning", "store")
         /\ CountFrom("error", "perform_search") = 0
         /\ pc # "aborted"

C11_Witness ==
  /\ calls.search = 1 /\ "search" \notin failures
  /\ Len(raw_results) = 2
  /\ Malformed(raw_results[1]) /\ Valid(raw_results[2])
  /\ Len(papers) = 1
  /\ CountFrom("warning", "extract") = 1
  /\ pc = "done"

Positions(md, tok) == {i \in DOMAIN md : md[i] = tok}
NthPosition(md, tok, k) ==
  CHOOSE i \in Positions(md, tok) :
     Cardinality({j \in Positions(md, tok) : j < i}) = k - 1
FallbackTaken ==
  \/ pc = "fn_fallback"
  \/ pc = "fn_formatted" /\ "llm" \in failures

\* C12: for a non-empty paper list the fallback output has exactly
\* len(papers) section headers and as many rules; the k-th header is
\* numbered k and is followed by the k-th paper's title, or by "No title"
\* when that dict has no title.
C12_FallbackNumberedSections ==
  (FallbackTaken /\ papers # <<>>) =>
     /\ Cardinality(Positions(formatted_results, "### ")) = Len(papers)
     /\ Cardinality(Positions(formatted_results, "---\n\n")) = Len(papers)
     /\ \A k \in 1..Len(papers) :
          LET i == NthPosition(formatted_results, "### ", k)
          IN  /\ formatted_results[i + 1] = ToString(k)
              /\ formatted_results[i + 2] = ". "
              /\ formatted_results[i + 3] =
                   (IF "title" \in DOMAIN papers[k] THEN papers[k].title
                    ELSE "No title")

C12_Witness ==
  /\ pc = "fn_fallback"
  /\ Len(papers) = 2
  /\ "title" \notin DOMAIN papers[1]
  /\ "title" \in DOMAIN papers[2]
  /\ Cardinality(Positions(formatted_results, "### ")) = 2

\* C13: in one invocation the search service, the text-generation service
\* and memory.add are each called at most once; a failed search call is
\* followed by the abort, a failed text-generation call by the fallback, a
\* failed add by the end of the invocation, none by a second call.
C13_NoRetries ==
  /\ calls.enhance <= 1 /\ calls.mem_search <= 1
  /\ calls.search <= 1
  /\ calls.format <= 1 /\ calls.llm <= 1
  /\ Len(add_calls) <= 1
  /\ "search" \in failures => calls.search = 1 /\ pc = "aborted"
  /\ "llm" \in failures =>
        /\ calls.llm = 1
        /\ formatted_results = _fallback_formatting(papers)
        /\ pc \in {"displaying", "recording", "done"}
  /\ "mem_write" \in failures => Len(add_calls) = 1 /\ pc = "done"

C13_Witness ==
  /\ failures = {"extract", "llm", "mem_write"}
  /\ pc = "done"
  /\ calls.search = 1 /\ calls.llm = 1 /\ Len(add_calls) = 1

\* C14: every step keeps each user's stored entries as a prefix of the
\* user's entries afterwards (nothing modified, removed or reordered); an
\* invocation adds at most one entry in all, and rendering the memory tab
\* leaves the store as it is.
C14_MemoryAppendOnly ==
  [][ /\ \A u \in Users : IsPrefix(memory[u], memory'[u])
      /\ \A u \in Users : Len(memory'[u]) <= Len(mem_before'[u]) + 1
      /\ Cardinality({u \in Users : memory'[u] # mem_before'[u]}) <= 1
      /\ history_view' # history_view => memory' = memory
      /\ pc # "recording" => memory' = memory ]_vars

C14_Witness ==
  /\ pc = "done"
  /\ Len(memory["alice"]) = 2
  /\ memory["alice"][1] # memory["alice"][2]
  /\ Len(history_view) = 2
  /\ history_view[1].body = memory["alice"][2].memory
  /\ history_view[2].body = memory["alice"][1].memory

Rendered(v, placeholder) == IF v = None THEN placeholder ELSE v

\* C15: the fallback always produces output without a further external
\* call, and in section k a paper whose title, abstract or PDF link is
\* absent shows "No title", "No abstract available" or "No link available".
C15_FallbackPlaceholders ==
  ("llm" \in failures /\ pc \in {"displaying", "recording", "done"}) =>
     /\ formatted_results # <<>>
     /\ calls.llm = 1
     /\ \A k \in 1..Len(papers) :
          LET t == NthPosition(formatted_results, "### ", k)
              a == NthPosition(formatted_results, "**Abstract:** ", k)
              l == NthPosition(formatted_results, "**Link:** ", k)
          IN  /\ formatted_results[t + 3]
                   = Rendered(papers[k].title, "No title")
              /\ formatted_results[a + 1]
                   = Rendered(papers[k].summary, "No abstract available")
              /\ formatted_results[l + 1]
                   = Rendered(papers[k].pdf_url, "No link available")

\* C16: format_papers_to_markdown applied to an empty list returns the
\* "No papers found for the given query." sentinel, whatever the
\* text-generation service would do, and does not call it or write to the
\* page.
C16_EmptyListSentinel ==
  (pc = "fn_formatted" /\ papers = <<>>) =>
     /\ formatted_results = <<"No papers found for the given query.">>
     /\ calls.llm = 0
     /\ calls.format = 1
     /\ ui = <<>>

C16_Witness ==
  /\ pc = "fn_formatted" /\ papers = <<>>
  /\ "llm" \in failures
  /\ formatted_results # <<>>

StepOrder ==
  {<<"enriching", "searching">>, <<"searching", "formatting">>,
   <<"searching", "no_results">>, <<"searching", "aborted">>,
   <<"formatting", "displaying">>, <<"displaying", "recording">>,
   <<"recording", "done">>}
CallsInOrder ==
  /\ calls.search = 1 => calls.enhance = 1
  /\ calls.format = 1 =>
        calls.search = 1 /\ "search" \notin failures /\ papers # <<>>
  /\ calls.llm = 1 => calls.format = 1
  /\ add_calls # <<>> =>
        /\ calls.format = 1
        /\ formatted_results # <<>>
        /\ \E i \in DOMAIN ui :
             ui[i] = Elem("markdown", "results", formatted_results)

\* C17: the search call is made only after enrichment, the formatter call
\* only after a search that returned papers, memory.add only after the
\* formatted output is on the page; inside an invocation the position
\* moves only along enriching, searching, formatting (then display),
\* recording, done, with no_results and aborted reached from searching; an
\* invocation starts only from idle or a finished invocation and may abort
\* at once on the user-id test; after a terminal position nothing of the
\* pipeline changes until the next invocation.
C17_StepOrder ==
  /\ []CallsInOrder
  /\ [][ /\ (invocations' = invocations /\ pc' # pc) => <<pc, pc'>> \in StepOrder
         /\ invocations' # invocations =>
               /\ pc \in Terminal \cup {"idle"}
               /\ pc' \in {"enriching", "aborted"}
               /\ pc' = "aborted" <=> user_id' = ""
         /\ (invocations' = invocations /\ pc \in Terminal) =>
               /\ pc' = pc
               /\ UNCHANGED <<ui, calls, add_calls, memory, papers,
                              formatted_results, enhanced_query, failures>>
     ]_vars

C17_Witness ==
  /\ pc = "done" /\ invocations = 2
  /\ calls = [enhance |-> 1, mem_search |-> 0, search |-> 1, format |-> 1,
              llm |-> 1]
  /\ Len(add_calls) = 1
  /\ ui[Len(ui)].kind = "markdown"
  /\ mem_before["alice"] # <<>>

Running == {"enriching", "searching", "formatting", "displaying", "recording"}

\* C18: an invocation that is under way eventually reaches done,
\* no_results or aborted (no step leaves it stuck on an exception that
\* escaped), and a new invocation starts only from idle or from one of
\* those terminal positions.
C18_InvocationTerminates ==
  /\ (pc \in Running) ~> (pc \in Terminal)
  /\ [][invocations' # invocations => pc \in Terminal \cup {"idle"}]_vars

C18_Witness ==
  /\ invocations = 2
  /\ pc = "aborted"
  /\ failures = {"search"}
  /\ memory["alice"] # <<>>

\* the episode text as a function of the query and the titles alone
RECURSIVE Bullets(_)
Bullets(titles) ==
  IF titles = <<>> THEN <<>>
  ELSE Bullets(SubSeq(titles, 1, Len(titles) - 1)) \o
       <<"- ", titles[Len(titles)], "\n">>
EpisodeOf(query, titles) ==
  <<"**Searched for:** ">> \o query \o
  <<"\n\n", "**Found Papers:**\n">> \o Bullets(titles) \o <<"\n---\n">>

\* C19: at the end of an invocation that formatted a result, whichever
\* path the formatter took, exactly one memory.add call was made, for the
\* invocation's user, with infer = FALSE and a text fixed by the original
\* query and the paper titles alone.
C19_EpisodeIndependentOfFormatter ==
  pc = "done" =>
     /\ Len(add_calls) = 1
     /\ add_calls[1].user_id = user_id
     /\ add_calls[1].infer = FALSE
     /\ add_calls[1].messages = EpisodeOf(search_query, Titles(papers))

C19_Witness ==
  /\ pc = "done"
  /\ "llm" \notin failures
  /\ formatted_results \in LLMOutputs
  /\ Len(papers) = 2
  /\ mem_before[user_id] # <<>>
  /\ mem_before[user_id][1].memory # add_calls[1].messages
====
